---- MODULE Spec2Model ----
(***************************************************************************)
(* Model of crates/bevy_camera/src/primitives.rs: Aabb, Sphere, HalfSpace  *)
(* and Frustum together with their intersection and containment tests.    *)
(*                                                                         *)
(* f32 values are modelled as exact rationals <<n, d>> in lowest terms     *)
(* with d > 0; rounding is not modelled.  Inputs are drawn from sets on   *)
(* which every length that the code computes is rational.  The values     *)
(* that are not finite have d = 0: <<0, 0>> is NaN, <<1, 0>> is +infinity *)
(* and <<-1, 0>> is -infinity.                                            *)
(***************************************************************************)
EXTENDS Integers, Sequences, FiniteSets, TLC

VARIABLES clip_from_world, view_translation, view_backward, far,
          points, minimum, maximum, sphere, world_from_local,
          frustum, ctor, aabb, built, ret

vars == <<clip_from_world, view_translation, view_backward, far,
          points, minimum, maximum, sphere, world_from_local,
          frustum, ctor, aabb, built, ret>>

\* the arguments handed to the library; no operation writes them
inputs == <<clip_from_world, view_translation, view_backward, far,
            points, minimum, maximum, sphere, world_from_local>>

(***************************************************************************)
(* Bounds of the input sets.                                               *)
(***************************************************************************)
MaxCoord == 2
MaxRadius == 2
MaxPts == 3
MaxFar == 2

(***************************************************************************)
(* Exact arithmetic standing for f32.                                      *)
(***************************************************************************)
Abs(n) == IF n < 0 THEN -n ELSE n

RECURSIVE GCD(_, _)
GCD(a, b) == IF b = 0 THEN a ELSE GCD(b, a % b)

Norm(n, d) == IF d = 1 THEN <<n, 1>> ELSE LET g == GCD(Abs(n), d) IN <<n \div g, d \div g>>

R(k) == <<k, 1>>

NaN == <<0, 0>>

Sgn(n) == IF n < 0 THEN -1 ELSE IF n > 0 THEN 1 ELSE 0

\* a + b when a or b is not finite
AddNonFinite(a, b) ==
    IF a[2] = 0 /\ b[2] = 0 THEN (IF a[1] = b[1] THEN a ELSE NaN)
    ELSE IF a[2] = 0 THEN a ELSE b

RAdd(a, b) ==
    IF a[2] = 0 \/ b[2] = 0 THEN AddNonFinite(a, b)
    ELSE Norm(a[1] * b[2] + b[1] * a[2], a[2] * b[2])

RNeg(a) == <<-a[1], a[2]>>

RSub(a, b) == RAdd(a, RNeg(b))

RMul(a, b) ==
    IF a[2] = 0 \/ b[2] = 0 THEN <<Sgn(a[1]) * Sgn(b[1]), 0>>
    ELSE Norm(a[1] * b[1], a[2] * b[2])

RAbs(a) == <<Abs(a[1]), a[2]>>

\* a comparison with NaN is false
RLt(a, b) ==
    IF a = NaN \/ b = NaN THEN FALSE
    ELSE IF a[2] = 0 /\ b[2] = 0 THEN a[1] < b[1]
    ELSE a[1] * b[2] < b[1] * a[2]

RLe(a, b) ==
    IF a = NaN \/ b = NaN THEN FALSE
    ELSE IF a[2] = 0 /\ b[2] = 0 THEN a[1] <= b[1]
    ELSE a[1] * b[2] <= b[1] * a[2]

RMin(a, b) == IF RLt(b, a) THEN b ELSE a

RMax(a, b) == IF RLt(a, b) THEN b ELSE a

\* 1 / a; 1 / 0 is +infinity
RRecip(a) == IF a[1] < 0 THEN <<-a[2], -a[1]>> ELSE <<a[2], a[1]>>

\* a / b; 0 / 0 is NaN
RDiv(a, b) == RMul(a, RRecip(b))

ISqrt(n) == CHOOSE k \in 0..n : k * k = n

\* square root of a rational square
RSqrt(a) == <<ISqrt(a[1]), ISqrt(a[2])>>

Half == <<1, 2>>

(***************************************************************************)
(* glam vectors and matrices.  Vec3 / Vec3A are <<x, y, z>>, Vec4 is       *)
(* <<x, y, z, w>>.  Mat3A and Mat4 are stored by columns, as in glam.     *)
(***************************************************************************)
V3(x, y, z) == <<R(x), R(y), R(z)>>

Vec3_add(a, b) == <<RAdd(a[1], b[1]), RAdd(a[2], b[2]), RAdd(a[3], b[3])>>

Vec3_sub(a, b) == <<RSub(a[1], b[1]), RSub(a[2], b[2]), RSub(a[3], b[3])>>

Vec3_scale(k, a) == <<RMul(k, a[1]), RMul(k, a[2]), RMul(k, a[3])>>

Vec3_div(a, k) == <<RDiv(a[1], k), RDiv(a[2], k), RDiv(a[3], k)>>

Vec3_abs(a) == <<RAbs(a[1]), RAbs(a[2]), RAbs(a[3])>>

Vec3_min(a, b) == <<RMin(a[1], b[1]), RMin(a[2], b[2]), RMin(a[3], b[3])>>

Vec3_max(a, b) == <<RMax(a[1], b[1]), RMax(a[2], b[2]), RMax(a[3], b[3])>>

Vec3_dot(a, b) == RAdd(RAdd(RMul(a[1], b[1]), RMul(a[2], b[2])), RMul(a[3], b[3]))

Vec3_length(a) == RSqrt(Vec3_dot(a, a))

Vec3_length_recip(a) == RRecip(Vec3_length(a))

Vec3_extend(a, w) == <<a[1], a[2], a[3], w>>

Vec4_xyz(v) == <<v[1], v[2], v[3]>>

Vec4_add(a, b) == <<RAdd(a[1], b[1]), RAdd(a[2], b[2]), RAdd(a[3], b[3]), RAdd(a[4], b[4])>>

Vec4_sub(a, b) == <<RSub(a[1], b[1]), RSub(a[2], b[2]), RSub(a[3], b[3]), RSub(a[4], b[4])>>

Vec4_scale(v, k) == <<RMul(v[1], k), RMul(v[2], k), RMul(v[3], k), RMul(v[4], k)>>

Vec4_dot(a, b) ==
    RAdd(RAdd(RAdd(RMul(a[1], b[1]), RMul(a[2], b[2])), RMul(a[3], b[3])), RMul(a[4], b[4]))

Vec4_ZERO == <<R(0), R(0), R(0), R(0)>>

Vec3_ZERO == <<R(0), R(0), R(0)>>

\* Mat4::row(i), i in 0..3: the i-th component of each column
Mat4_row(m, i) == <<m.x_axis[i + 1], m.y_axis[i + 1], m.z_axis[i + 1], m.w_axis[i + 1]>>

\* Mat3A * Vec3A
Mat3A_mul_vec(m, v) ==
    Vec3_add(Vec3_add(Vec3_scale(v[1], m.x_axis), Vec3_scale(v[2], m.y_axis)),
             Vec3_scale(v[3], m.z_axis))

Mat3A_abs(m) ==
    [x_axis |-> Vec3_abs(m.x_axis), y_axis |-> Vec3_abs(m.y_axis), z_axis |-> Vec3_abs(m.z_axis)]

\* Affine3A::transform_point3a
transform_point3a(a, p) == Vec3_add(Mat3A_mul_vec(a.matrix3, p), a.translation)

(***************************************************************************)
(* HalfSpace                                                               *)
(***************************************************************************)
HalfSpace_new(normal_d) ==
    [normal_d |-> Vec4_scale(normal_d, Vec3_length_recip(Vec4_xyz(normal_d)))]

HalfSpace_default == [normal_d |-> Vec4_ZERO]

HalfSpace_normal(self) == Vec4_xyz(self.normal_d)

HalfSpace_d(self) == self.normal_d[4]

HalfSpace_normal_d(self) == self.normal_d

(***************************************************************************)
(* Frustum: half_spaces is indexed 0..5 as in the source.                 *)
(***************************************************************************)
Frustum_default == [half_spaces |-> [i \in 0..5 |-> HalfSpace_default]]

\* mutant: plane 4 follows the parity rule of planes 0..3
no_far_row_parity(m, i) ==
    LET row3 == Mat4_row(m, 3)
        row == Mat4_row(m, i \div 2)
    IN  IF (i % 2) = 0 THEN Vec4_add(row3, row) ELSE Vec4_sub(row3, row)

\* the vector handed to HalfSpace::new for plane i, i in 0..4
no_far_row(m, i) ==
    LET row3 == Mat4_row(m, 3)
        row == Mat4_row(m, i \div 2)
    IN  IF (i % 2) = 0 /\ i # 4 THEN Vec4_add(row3, row) ELSE Vec4_sub(row3, row)

from_clip_from_world_no_far(m) ==
    [half_spaces |-> [i \in 0..5 |->
        IF i < 5 THEN HalfSpace_new(no_far_row(m, i)) ELSE HalfSpace_default]]

from_clip_from_world(m) ==
    LET f == from_clip_from_world_no_far(m)
    IN  [half_spaces |-> [f.half_spaces EXCEPT ![5] = HalfSpace_new(Mat4_row(m, 2))]]

\* mutant: the far centre is taken in front of view_backward
from_clip_from_world_custom_far_ahead(m, vt, vb, f_far) ==
    LET f == from_clip_from_world_no_far(m)
        far_center == Vec3_add(vt, Vec3_scale(f_far, vb))
    IN  [half_spaces |-> [f.half_spaces EXCEPT
            ![5] = HalfSpace_new(Vec3_extend(vb, RNeg(Vec3_dot(vb, far_center))))]]

from_clip_from_world_custom_far(m, vt, vb, f_far) ==
    LET f == from_clip_from_world_no_far(m)
        far_center == Vec3_sub(vt, Vec3_scale(f_far, vb))
    IN  [half_spaces |-> [f.half_spaces EXCEPT
            ![5] = HalfSpace_new(Vec3_extend(vb, RNeg(Vec3_dot(vb, far_center))))]]

(***************************************************************************)
(* Aabb.  Option<Aabb> is [some |-> FALSE] or [some |-> TRUE, value |-> a] *)
(***************************************************************************)
None == [some |-> FALSE]

Some(a) == [some |-> TRUE, value |-> a]

Aabb_default == [center |-> Vec3_ZERO, half_extents |-> Vec3_ZERO]

\* mutant: half_extents is forced non-negative
Aabb_from_min_max_abs(lo, hi) ==
    [center |-> Vec3_scale(Half, Vec3_add(hi, lo)),
     half_extents |-> Vec3_abs(Vec3_scale(Half, Vec3_sub(hi, lo)))]

Aabb_from_min_max(lo, hi) ==
    [center |-> Vec3_scale(Half, Vec3_add(hi, lo)),
     half_extents |-> Vec3_scale(Half, Vec3_sub(hi, lo))]

\* mutant: the loop leaves max at the first point
RECURSIVE enclosing_loop_min_only(_, _, _, _)
enclosing_loop_min_only(iter, k, min, max) ==
    IF k > Len(iter) THEN Aabb_from_min_max(min, max)
    ELSE enclosing_loop_min_only(iter, k + 1, Vec3_min(min, iter[k]), max)

\* the for loop of Aabb::enclosing over the points after the first
RECURSIVE enclosing_loop(_, _, _, _)
enclosing_loop(iter, k, min, max) ==
    IF k > Len(iter) THEN Aabb_from_min_max(min, max)
    ELSE enclosing_loop(iter, k + 1, Vec3_min(min, iter[k]), Vec3_max(max, iter[k]))

Aabb_enclosing(iter) ==
    IF Len(iter) = 0 THEN None
    ELSE Some(enclosing_loop(iter, 2, iter[1], iter[1]))

\* mutant: the projections of the axes keep their signs
Aabb_relative_radius_no_abs(self, p_normal, m3) ==
    Vec3_dot(<<Vec3_dot(p_normal, m3.x_axis),
               Vec3_dot(p_normal, m3.y_axis),
               Vec3_dot(p_normal, m3.z_axis)>>,
             self.half_extents)

Aabb_relative_radius(self, p_normal, m3) ==
    Vec3_dot(Vec3_abs(<<Vec3_dot(p_normal, m3.x_axis),
                        Vec3_dot(p_normal, m3.y_axis),
                        Vec3_dot(p_normal, m3.z_axis)>>),
             self.half_extents)

Aabb_min(self) == Vec3_sub(self.center, self.half_extents)

Aabb_max(self) == Vec3_add(self.center, self.half_extents)

\* mutant: the linear part is used with its signs
Aabb_is_in_half_space_no_mat_abs(self, half_space, wfl) ==
    LET half_extents_world == Mat3A_mul_vec(wfl.matrix3, Vec3_abs(self.half_extents))
        p_normal == HalfSpace_normal(half_space)
        r == Vec3_dot(half_extents_world, Vec3_abs(p_normal))
        aabb_center_world == transform_point3a(wfl, self.center)
        signed_distance == RAdd(Vec3_dot(p_normal, aabb_center_world), HalfSpace_d(half_space))
    IN  RLt(r, signed_distance)

\* mutant: a box that touches the plane counts as inside
Aabb_is_in_half_space_touching(self, half_space, wfl) ==
    LET half_extents_world == Mat3A_mul_vec(Mat3A_abs(wfl.matrix3), Vec3_abs(self.half_extents))
        p_normal == HalfSpace_normal(half_space)
        r == Vec3_dot(half_extents_world, Vec3_abs(p_normal))
        aabb_center_world == transform_point3a(wfl, self.center)
        signed_distance == RAdd(Vec3_dot(p_normal, aabb_center_world), HalfSpace_d(half_space))
    IN  RLe(r, signed_distance)

\* mutant: half_extents is used with its sign
Aabb_is_in_half_space_signed(self, half_space, wfl) ==
    LET half_extents_world == Mat3A_mul_vec(Mat3A_abs(wfl.matrix3), self.half_extents)
        p_normal == HalfSpace_normal(half_space)
        r == Vec3_dot(half_extents_world, Vec3_abs(p_normal))
        aabb_center_world == transform_point3a(wfl, self.center)
        signed_distance == RAdd(Vec3_dot(p_normal, aabb_center_world), HalfSpace_d(half_space))
    IN  RLt(r, signed_distance)

Aabb_is_in_half_space(self, half_space, wfl) ==
    LET half_extents_world == Mat3A_mul_vec(Mat3A_abs(wfl.matrix3), Vec3_abs(self.half_extents))
        p_normal == HalfSpace_normal(half_space)
        r == Vec3_dot(half_extents_world, Vec3_abs(p_normal))
        aabb_center_world == transform_point3a(wfl, self.center)
        signed_distance == RAdd(Vec3_dot(p_normal, aabb_center_world), HalfSpace_d(half_space))
    IN  RLt(r, signed_distance)

\* mutant: the box spans the radius, not the diameter
Aabb_from_sphere_half(s) ==
    [center |-> s.center,
     half_extents |-> <<RMul(Half, s.radius), RMul(Half, s.radius), RMul(Half, s.radius)>>]

\* impl From<Sphere> for Aabb; Vec3A::splat(radius) is <<radius, radius, radius>>
Aabb_from_sphere(s) ==
    [center |-> s.center, half_extents |-> <<s.radius, s.radius, s.radius>>]

(***************************************************************************)
(* Sphere                                                                  *)
(***************************************************************************)
Sphere_intersects_obb(self, box, wfl) ==
    LET aabb_center_world == transform_point3a(wfl, box.center)
        v == Vec3_sub(aabb_center_world, self.center)
        d == Vec3_length(v)
        relative_radius == Aabb_relative_radius(box, Vec3_div(v, d), wfl.matrix3)
    IN  RLt(d, RAdd(self.radius, relative_radius))

(***************************************************************************)
(* Frustum tests.  Each loop returns at the first excluding plane.         *)
(***************************************************************************)
RECURSIVE intersects_sphere_loop(_, _, _, _)
intersects_sphere_loop(self, s, i, max) ==
    IF i >= max THEN TRUE
    ELSE IF RLe(RAdd(Vec4_dot(HalfSpace_normal_d(self.half_spaces[i]),
                              Vec3_extend(s.center, R(1))),
                     s.radius), R(0))
         THEN FALSE
         ELSE intersects_sphere_loop(self, s, i + 1, max)

\* mutant: the far plane is tested whatever the flag
Frustum_intersects_sphere_always_far(self, s, intersect_far) ==
    intersects_sphere_loop(self, s, 0, 6)

Frustum_intersects_sphere(self, s, intersect_far) ==
    intersects_sphere_loop(self, s, 0, IF intersect_far THEN 6 ELSE 5)

RECURSIVE intersects_obb_loop(_, _, _, _, _, _)
intersects_obb_loop(self, box, wfl, intersect_near, intersect_far, idx) ==
    IF idx > 5 THEN TRUE
    ELSE IF idx = 4 /\ ~intersect_near
         THEN intersects_obb_loop(self, box, wfl, intersect_near, intersect_far, idx + 1)
    ELSE IF idx = 5 /\ ~intersect_far
         THEN intersects_obb_loop(self, box, wfl, intersect_near, intersect_far, idx + 1)
    ELSE LET half_space == self.half_spaces[idx]
             aabb_center_world == Vec3_extend(transform_point3a(wfl, box.center), R(1))
             p_normal == HalfSpace_normal(half_space)
             relative_radius == Aabb_relative_radius(box, p_normal, wfl.matrix3)
         IN  IF RLe(RAdd(Vec4_dot(HalfSpace_normal_d(half_space), aabb_center_world),
                         relative_radius), R(0))
             THEN FALSE
             ELSE intersects_obb_loop(self, box, wfl, intersect_near, intersect_far, idx + 1)

\* mutant: the two flags are swapped
Frustum_intersects_obb_swapped(self, box, wfl, intersect_near, intersect_far) ==
    intersects_obb_loop(self, box, wfl, intersect_far, intersect_near, 0)

Frustum_intersects_obb(self, box, wfl, intersect_near, intersect_far) ==
    intersects_obb_loop(self, box, wfl, intersect_near, intersect_far, 0)

RECURSIVE contains_aabb_loop(_, _, _, _)
contains_aabb_loop(self, box, wfl, i) ==
    IF i > 5 THEN TRUE
    ELSE IF ~Aabb_is_in_half_space(box, self.half_spaces[i], wfl) THEN FALSE
    ELSE contains_aabb_loop(self, box, wfl, i + 1)

Frustum_contains_aabb(self, box, wfl) == contains_aabb_loop(self, box, wfl, 0)

(***************************************************************************)
(* Input sets.                                                             *)
(***************************************************************************)
\* a Mat4 given by its four rows
MatRows(r0, r1, r2, r3) ==
    [x_axis |-> <<R(r0[1]), R(r1[1]), R(r2[1]), R(r3[1])>>,
     y_axis |-> <<R(r0[2]), R(r1[2]), R(r2[2]), R(r3[2])>>,
     z_axis |-> <<R(r0[3]), R(r1[3]), R(r2[3]), R(r3[3])>>,
     w_axis |-> <<R(r0[4]), R(r1[4]), R(r2[4]), R(r3[4])>>]

Mat4_IDENTITY == MatRows(<<1, 0, 0, 0>>, <<0, 1, 0, 0>>, <<0, 0, 1, 0>>, <<0, 0, 0, 1>>)

\* orthographic, reverse depth: the cube -1 < x, y, z < 1
OrthoCube == MatRows(<<2, 0, 0, 0>>, <<0, 2, 0, 0>>, <<0, 0, 1, 1>>, <<0, 0, 0, 2>>)

\* perspective, reverse depth, eye at the origin looking down -z, near 1, far 4
Persp == MatRows(<<4, 0, 0, 0>>, <<0, 4, 0, 0>>, <<0, 0, 1, 4>>, <<0, 0, -3, 0>>)

\* the same projection seen from the eye at (1, 1, 0)
PerspMoved == MatRows(<<4, 0, 0, -4>>, <<0, 4, 0, -4>>, <<0, 0, 1, 4>>, <<0, 0, -3, 0>>)

Mats == {OrthoCube, Persp, PerspMoved}

ViewTranslations == {V3(0, 0, 0), V3(1, 1, 0)}

ViewBackwards == {V3(0, 0, 1), V3(0, 0, 2)}

Fars == {R(k) : k \in 1..MaxFar}

Coords == (-MaxCoord)..MaxCoord

Sphere_default == [center |-> Vec3_ZERO, radius |-> R(0)]

SphereCenters ==
    {V3(x, 0, z) : x \in Coords, z \in (-MaxCoord)..0} \cup {V3(0, y, 1) : y \in Coords}

\* radii in steps of 1/2
Spheres == {[center |-> c, radius |-> Norm(k, 2)] : c \in SphereCenters, k \in 0..MaxRadius}

\* spheres of any centre and radius, the radius of either sign
SignedSpheres ==
    {[center |-> c, radius |-> Norm(k, 2)] : c \in SphereCenters, k \in (-MaxRadius)..MaxRadius}

Mat3Cols(c0, c1, c2) == [x_axis |-> c0, y_axis |-> c1, z_axis |-> c2]

Affine(m3, t) == [matrix3 |-> m3, translation |-> t]

Mat3A_IDENTITY == Mat3Cols(V3(1, 0, 0), V3(0, 1, 0), V3(0, 0, 1))

Affine3A_IDENTITY == Affine(Mat3A_IDENTITY, Vec3_ZERO)

Linears ==
    { Mat3A_IDENTITY,
      \* uniform scale by 1/2
      Mat3Cols(<<Half, R(0), R(0)>>, <<R(0), Half, R(0)>>, <<R(0), R(0), Half>>),
      \* mirror in x, stretch in z
      Mat3Cols(V3(-1, 0, 0), V3(0, 1, 0), V3(0, 0, 2)),
      \* quarter turn about y
      Mat3Cols(V3(0, 0, -1), V3(0, 1, 0), V3(1, 0, 0)),
      \* rotation about z by the 3-4-5 angle
      Mat3Cols(<<<<3, 5>>, <<4, 5>>, R(0)>>, <<<<-4, 5>>, <<3, 5>>, R(0)>>, V3(0, 0, 1)),
      \* shear of x along y
      Mat3Cols(V3(1, 0, 0), V3(1, 1, 0), V3(0, 0, 1)) }

Translations == {V3(0, 0, 0), V3(0, 0, -2), V3(-2, 0, 0)}

Affines == {Affine(m3, t) : m3 \in Linears, t \in Translations}

\* min <= max on every axis, on no axis, and on some axes only
BoxMins == {V3(-1, -1, -1), V3(0, 0, 0)}

BoxMaxs == {V3(1, 1, 1), V3(0, 0, 0), V3(1, 0, -1), V3(-1, -1, -1)}

PointSet == {V3(x, y, 0) : x \in Coords, y \in 0..1} \cup {V3(0, 0, z) : z \in Coords}

RECURSIVE SeqsUpTo(_, _)
SeqsUpTo(S, n) ==
    IF n = 0 THEN {<<>>}
    ELSE LET T == SeqsUpTo(S, n - 1) IN T \cup {Append(t, x) : t \in {u \in T : Len(u) = n - 1}, x \in S}

(***************************************************************************)
(* State.  ret is the last query and the value it returned.                *)
(***************************************************************************)
NoRet == [op |-> "none", intersect_near |-> FALSE, intersect_far |-> FALSE, val |-> FALSE]

Held ==
    /\ frustum = Frustum_default
    /\ ctor = "default"
    /\ ret = NoRet

\* frusta are built from every combination of constructor arguments
InitFrustum ==
    /\ clip_from_world \in Mats
    /\ view_translation \in ViewTranslations
    /\ view_backward \in ViewBackwards
    /\ far \in Fars
    /\ sphere = Sphere_default
    /\ minimum = Vec3_ZERO /\ maximum = Vec3_ZERO /\ points = <<>>
    /\ world_from_local = Affine3A_IDENTITY
    /\ aabb = Some(Aabb_default) /\ built = "default"
    /\ Held

\* the camera of the volume tests looks down -z from the origin
CameraArgs ==
    /\ clip_from_world \in Mats
    /\ view_translation = Vec3_ZERO
    /\ view_backward = V3(0, 0, 1)
    /\ far \in Fars

\* a sphere is tested against the frustum
InitSphere ==
    /\ CameraArgs
    /\ sphere \in Spheres
    /\ minimum = Vec3_ZERO /\ maximum = Vec3_ZERO /\ points = <<>>
    /\ world_from_local = Affine3A_IDENTITY
    /\ aabb = Some(Aabb_default) /\ built = "default"
    /\ Held

\* a box built from two corners is tested against the frustum
InitBox ==
    /\ CameraArgs
    /\ sphere = Sphere_default
    /\ minimum \in BoxMins /\ maximum \in BoxMaxs /\ points = <<>>
    /\ world_from_local \in Affines
    /\ aabb = Some(Aabb_from_min_max(minimum, maximum)) /\ built = "from_min_max"
    /\ Held

Init == InitFrustum \/ InitSphere \/ InitBox

FrustumDefault ==
    /\ ctor # "default"
    /\ frustum' = Frustum_default
    /\ ctor' = "default"
    /\ ret' = NoRet
    /\ UNCHANGED <<inputs, aabb, built>>

FromClipFromWorld ==
    /\ frustum' = from_clip_from_world(clip_from_world)
    /\ ctor' = "from_clip_from_world"
    /\ ret' = NoRet
    /\ UNCHANGED <<inputs, aabb, built>>

FromClipFromWorldCustomFar ==
    /\ frustum' = from_clip_from_world_custom_far(clip_from_world, view_translation,
                                                  view_backward, far)
    /\ ctor' = "from_clip_from_world_custom_far"
    /\ ret' = NoRet
    /\ UNCHANGED <<inputs, aabb, built>>

IntersectsSphere(intersect_far) ==
    /\ ret' = [op |-> "intersects_sphere", intersect_near |-> TRUE,
               intersect_far |-> intersect_far,
               val |-> Frustum_intersects_sphere(frustum, sphere, intersect_far)]
    /\ UNCHANGED <<inputs, frustum, ctor, aabb, built>>

IntersectsObb(intersect_near, intersect_far) ==
    /\ aabb.some
    /\ ret' = [op |-> "intersects_obb", intersect_near |-> intersect_near,
               intersect_far |-> intersect_far,
               val |-> Frustum_intersects_obb(frustum, aabb.value, world_from_local,
                                              intersect_near, intersect_far)]
    /\ UNCHANGED <<inputs, frustum, ctor, aabb, built>>

ContainsAabb ==
    /\ aabb.some
    /\ ret' = [op |-> "contains_aabb", intersect_near |-> TRUE, intersect_far |-> TRUE,
               val |-> Frustum_contains_aabb(frustum, aabb.value, world_from_local)]
    /\ UNCHANGED <<inputs, frustum, ctor, aabb, built>>

Next ==
    \/ FrustumDefault
    \/ FromClipFromWorld
    \/ FromClipFromWorldCustomFar
    \/ \E b \in BOOLEAN : IntersectsSphere(b)
    \/ \E n \in BOOLEAN, f \in BOOLEAN : IntersectsObb(n, f)
    \/ ContainsAabb

Spec == Init /\ [][Next]_vars

(***************************************************************************)
(* Building boxes: from_min_max and enclosing.                             *)
(***************************************************************************)
InitAabb ==
    /\ clip_from_world = Mat4_IDENTITY
    /\ view_translation = Vec3_ZERO /\ view_backward = V3(0, 0, 1) /\ far = R(1)
    /\ world_from_local = Affine3A_IDENTITY
    /\ \/ /\ minimum \in PointSet /\ maximum \in PointSet /\ points = <<>>
          /\ sphere = Sphere_default
       \/ /\ minimum = Vec3_ZERO /\ maximum = Vec3_ZERO
          /\ points \in SeqsUpTo(PointSet, MaxPts)
          /\ sphere = Sphere_default
       \/ /\ minimum = Vec3_ZERO /\ maximum = Vec3_ZERO /\ points = <<>>
          /\ sphere \in SignedSpheres
    /\ aabb = Some(Aabb_default) /\ built = "default"
    /\ Held

FromMinMax ==
    /\ aabb' = Some(Aabb_from_min_max(minimum, maximum))
    /\ built' = "from_min_max"
    /\ UNCHANGED <<inputs, frustum, ctor, ret>>

Enclosing ==
    /\ aabb' = Aabb_enclosing(points)
    /\ built' = "enclosing"
    /\ UNCHANGED <<inputs, frustum, ctor, ret>>

FromSphere ==
    /\ aabb' = Some(Aabb_from_sphere(sphere))
    /\ built' = "from_sphere"
    /\ UNCHANGED <<inputs, frustum, ctor, ret>>

NextAabb == FromMinMax \/ Enclosing \/ FromSphere

SpecAabb == InitAabb /\ [][NextAabb]_vars

(***************************************************************************)
(* A box against one half-space of a frustum.                              *)
(***************************************************************************)
\* rotation about y by the 3-4-5 angle: it turns x into a mix of x and z
TiltY == Mat3Cols(<<<<3, 5>>, R(0), <<-4, 5>>>>, V3(0, 1, 0), <<<<4, 5>>, R(0), <<3, 5>>>>)

TiltedAffines == {Affine(m3, t) : m3 \in Linears \cup {TiltY}, t \in Translations}

\* a box built from two corners is tested against single planes of the frustum
InitHalfSpace ==
    /\ CameraArgs
    /\ sphere = Sphere_default
    /\ minimum \in BoxMins /\ maximum \in BoxMaxs /\ points = <<>>
    /\ world_from_local \in TiltedAffines
    /\ aabb = Some(Aabb_from_min_max(minimum, maximum)) /\ built = "from_min_max"
    /\ Held

IsInHalfSpace(i) ==
    /\ aabb.some
    /\ ret' = [op |-> "is_in_half_space", intersect_near |-> TRUE, intersect_far |-> TRUE,
               idx |-> i,
               val |-> Aabb_is_in_half_space(aabb.value, frustum.half_spaces[i],
                                             world_from_local)]
    /\ UNCHANGED <<inputs, frustum, ctor, aabb, built>>

NextHalfSpace ==
    \/ FrustumDefault
    \/ FromClipFromWorld
    \/ FromClipFromWorldCustomFar
    \/ \E i \in 0..5 : IsInHalfSpace(i)

SpecHalfSpace == InitHalfSpace /\ [][NextHalfSpace]_vars

(***************************************************************************)
(* A sphere against a box.                                                 *)
(***************************************************************************)
\* unit directions along which the distance between the centres is rational
Directions == {V3(1, 0, 0), V3(0, 0, -1), <<<<3, 5>>, <<4, 5>>, R(0)>>}

\* from the sphere centre to the box centre: steps of 1/2, the null vector included
CenterOffsets == {Vec3_scale(Norm(k, 2), u) : k \in 0..(2 * MaxCoord), u \in Directions}

\* a sphere is tested against a box built from two corners
InitSphereObb ==
    /\ clip_from_world = Mat4_IDENTITY
    /\ view_translation = Vec3_ZERO /\ view_backward = V3(0, 0, 1) /\ far = R(1)
    /\ minimum \in BoxMins /\ maximum \in BoxMaxs /\ points = <<>>
    /\ world_from_local \in Affines
    /\ aabb = Some(Aabb_from_min_max(minimum, maximum)) /\ built = "from_min_max"
    /\ \E o \in CenterOffsets, k \in 0..MaxRadius :
          sphere = [center |-> Vec3_sub(transform_point3a(world_from_local, aabb.value.center), o),
                    radius |-> Norm(k, 2)]
    /\ Held

SphereIntersectsObb ==
    /\ aabb.some
    /\ ret' = [op |-> "sphere_intersects_obb", intersect_near |-> TRUE, intersect_far |-> TRUE,
               val |-> Sphere_intersects_obb(sphere, aabb.value, world_from_local)]
    /\ UNCHANGED <<inputs, frustum, ctor, aabb, built>>

NextSphereObb == SphereIntersectsObb

SpecSphereObb == InitSphereObb /\ [][NextSphereObb]_vars

(***************************************************************************)
(* Properties.  The geometry below is stated on the held values, apart     *)
(* from the operators that model the tests.                                *)
(***************************************************************************)
\* dot(normal, p) + d for plane i of the held frustum
PlaneEval(i, p) ==
    RAdd(Vec3_dot(HalfSpace_normal(frustum.half_spaces[i]), p), HalfSpace_d(frustum.half_spaces[i]))

Positive(a) == a[1] > 0

Negative(a) == a[1] < 0

BoxCenterWorld == transform_point3a(world_from_local, aabb.value.center)

SphereTested == (0..4) \cup (IF ret.intersect_far THEN {5} ELSE {})

SphereExcludedBy(i) == ~Positive(RAdd(PlaneEval(i, sphere.center), sphere.radius))

\* C1: intersects_sphere returns false exactly when one of the tested planes
\* (0..4 always, 5 only with include_far) has dot(normal, center) + d + radius <= 0.
C1_IntersectsSphereIff ==
    ret.op = "intersects_sphere" =>
        (ret.val = FALSE <=> \E i \in SphereTested : SphereExcludedBy(i))

\* the far plane alone would exclude the sphere, and it was not tested
C1_Witness ==
    /\ ret.op = "intersects_sphere"
    /\ ~ret.intersect_far
    /\ ret.val = TRUE
    /\ SphereExcludedBy(5)
    /\ ctor # "default"

ObbTested ==
    (0..3) \cup (IF ret.intersect_near THEN {4} ELSE {}) \cup (IF ret.intersect_far THEN {5} ELSE {})

ObbExcludedBy(i) ==
    ~Positive(RAdd(PlaneEval(i, BoxCenterWorld),
                   Aabb_relative_radius(aabb.value, HalfSpace_normal(frustum.half_spaces[i]),
                                        world_from_local.matrix3)))

\* C2: intersects_obb returns false exactly when a plane that is not skipped has
\* dot(normal, center_world) + d + relative_radius <= 0; plane 4 is skipped iff
\* include_near is false, plane 5 iff include_far is false, planes 0..3 never.
C2_IntersectsObbIff ==
    ret.op = "intersects_obb" =>
        (ret.val = FALSE <=> \E i \in ObbTested : ObbExcludedBy(i))

\* the near plane alone would exclude the box, and it was skipped
C2_Witness ==
    /\ ret.op = "intersects_obb"
    /\ ~ret.intersect_near
    /\ ret.intersect_far
    /\ ret.val = TRUE
    /\ ObbExcludedBy(4)
    /\ ctor # "default"

HeldBoxContained == Frustum_contains_aabb(frustum, aabb.value, world_from_local)

\* C3: a box that contains_aabb accepts is accepted by intersects_obb with near
\* and far included, whatever the signs of half_extents and the transform.
C3_ContainsImpliesIntersects ==
    (ret.op = "intersects_obb" /\ ret.intersect_near /\ ret.intersect_far /\ HeldBoxContained)
        => ret.val = TRUE

\* a contained box with negative half_extents under a transform other than the identity
C3_Witness ==
    /\ ret.op = "intersects_obb" /\ ret.intersect_near /\ ret.intersect_far
    /\ HeldBoxContained
    /\ ret.val = TRUE
    /\ \E k \in 1..3 : Negative(aabb.value.half_extents[k])
    /\ world_from_local.matrix3 # Mat3A_IDENTITY

\* the converse of C3 fails here: the box intersects and is not contained
C3_ConverseFails ==
    /\ ret.op = "intersects_obb" /\ ret.intersect_near /\ ret.intersect_far
    /\ ret.val = TRUE
    /\ ~HeldBoxContained

(***************************************************************************)
(* Frustum construction.                                                   *)
(***************************************************************************)
Row(i) == Mat4_row(clip_from_world, i)

\* the rows the specification names for planes 0..5
StatedRows ==
    [i \in 0..5 |-> CASE i = 0 -> Vec4_add(Row(3), Row(0))
                      [] i = 1 -> Vec4_sub(Row(3), Row(0))
                      [] i = 2 -> Vec4_add(Row(3), Row(1))
                      [] i = 3 -> Vec4_sub(Row(3), Row(1))
                      [] i = 4 -> Vec4_add(Row(3), Row(2))
                      [] i = 5 -> Vec4_sub(Row(3), Row(2))]

\* the rows with near = row3 - row2 and far = row2
ReverseDepthRows == [StatedRows EXCEPT ![4] = Vec4_sub(Row(3), Row(2)), ![5] = Row(2)]

\* the half-space of the raw vector v, normalised by hand
UnitPlane(v) ==
    LET len == RSqrt(RAdd(RAdd(RMul(v[1], v[1]), RMul(v[2], v[2])), RMul(v[3], v[3])))
    IN  [normal_d |-> <<RMul(v[1], RRecip(len)), RMul(v[2], RRecip(len)),
                        RMul(v[3], RRecip(len)), RMul(v[4], RRecip(len))>>]

\* C4 as stated: from_clip_from_world stores row3+row0, row3-row0, row3+row1,
\* row3-row1, row3+row2 (near) and row3-row2 (far) at indices 0..5.
C4_StatedRowOrder ==
    ctor = "from_clip_from_world" =>
        \A i \in 0..5 : frustum.half_spaces[i] = UnitPlane(StatedRows[i])

\* C4 amended: indices 0..3 are as stated, index 4 (near) is row3 - row2 and
\* index 5 (far) is row2.
C4_ReverseDepthRowOrder ==
    ctor = "from_clip_from_world" =>
        \A i \in 0..5 : frustum.half_spaces[i] = UnitPlane(ReverseDepthRows[i])

\* a frustum whose near and far planes both differ from the stated rows
C4_Witness ==
    /\ ctor = "from_clip_from_world"
    /\ frustum.half_spaces[4] # UnitPlane(StatedRows[4])
    /\ frustum.half_spaces[5] # UnitPlane(StatedRows[5])

FarCenter == Vec3_sub(view_translation, Vec3_scale(far, view_backward))

\* C5: the custom-far frustum agrees with from_clip_from_world on planes 0..4;
\* its plane 5 has the direction of view_backward and passes through
\* view_translation - far * view_backward.
C5_CustomFar ==
    ctor = "from_clip_from_world_custom_far" =>
        /\ \A i \in 0..4 :
              frustum.half_spaces[i] = from_clip_from_world(clip_from_world).half_spaces[i]
        /\ Vec3_scale(Vec3_length(view_backward), HalfSpace_normal(frustum.half_spaces[5]))
              = view_backward
        /\ PlaneEval(5, FarCenter) = R(0)

\* the custom far plane is not the far plane of the matrix, view_backward is not
\* a unit vector and the eye is off the origin
C5_Witness ==
    /\ ctor = "from_clip_from_world_custom_far"
    /\ frustum.half_spaces[5] # from_clip_from_world(clip_from_world).half_spaces[5]
    /\ view_backward = V3(0, 0, 2)
    /\ view_translation # Vec3_ZERO

UnitNormal(h) == Vec3_dot(HalfSpace_normal(h), HalfSpace_normal(h)) = R(1)

\* C9 as stated: every half-space of a frustum obtained from a constructor or
\* from Default has a unit-length normal.
C9_UnitNormals == \A i \in 0..5 : UnitNormal(frustum.half_spaces[i])

(***************************************************************************)
(* Building boxes.                                                         *)
(***************************************************************************)
VLe(a, b) == \A k \in 1..3 : RLe(a[k], b[k])

Reverse(q) == [k \in 1..Len(q) |-> q[Len(q) + 1 - k]]

\* C6: enclosing returns None exactly for the empty sequence; otherwise every
\* point lies between min() and max(), each coordinate of min() and max() is that
\* coordinate of some point, and the order of the points does not matter.
C6_Enclosing ==
    built = "enclosing" =>
        /\ (aabb = None <=> Len(points) = 0)
        /\ Len(points) > 0 =>
              /\ aabb.some
              /\ \A k \in 1..Len(points) :
                    VLe(Aabb_min(aabb.value), points[k]) /\ VLe(points[k], Aabb_max(aabb.value))
              /\ \A ax \in 1..3 :
                    /\ \E k \in 1..Len(points) : Aabb_min(aabb.value)[ax] = points[k][ax]
                    /\ \E k \in 1..Len(points) : Aabb_max(aabb.value)[ax] = points[k][ax]
              /\ aabb = Aabb_enclosing(Reverse(points))

\* three points, none of which is the minimum or the maximum corner
C6_Witness ==
    /\ built = "enclosing"
    /\ Len(points) = 3
    /\ aabb.some
    /\ \A k \in 1..3 : points[k] # Aabb_min(aabb.value) /\ points[k] # Aabb_max(aabb.value)
    /\ points[1] # points[2] /\ points[2] # points[3]

NonNegative(v) == \A k \in 1..3 : v[k][1] >= 0

\* C10: from_min_max(a, b) has center (a+b)/2 and half_extents (b-a)/2, so that
\* min() = a and max() = b for all a and b; half_extents is non-negative exactly
\* when a <= b on every axis, and every box from enclosing has it non-negative.
C10_FromMinMax ==
    /\ built = "from_min_max" =>
          /\ \A k \in 1..3 :
                /\ RMul(R(2), aabb.value.center[k]) = RAdd(maximum[k], minimum[k])
                /\ RMul(R(2), aabb.value.half_extents[k]) = RSub(maximum[k], minimum[k])
          /\ Aabb_min(aabb.value) = minimum
          /\ Aabb_max(aabb.value) = maximum
          /\ NonNegative(aabb.value.half_extents) <=> VLe(minimum, maximum)
    /\ (built = "enclosing" /\ aabb.some) => NonNegative(aabb.value.half_extents)

\* corners given in the wrong order on one axis and in the right order on another
C10_Witness ==
    /\ built = "from_min_max"
    /\ \E k \in 1..3 : RLt(maximum[k], minimum[k])
    /\ \E k \in 1..3 : RLt(minimum[k], maximum[k])
    /\ Aabb_min(aabb.value) = minimum

(***************************************************************************)
(* Containment and conservativeness.                                       *)
(***************************************************************************)
Sum3(f) == RAdd(RAdd(f[1], f[2]), f[3])

Column(j) ==
    CASE j = 1 -> world_from_local.matrix3.x_axis
      [] j = 2 -> world_from_local.matrix3.y_axis
      [] j = 3 -> world_from_local.matrix3.z_axis

\* r = (|M| * |half_extents|) . |normal| for plane i, written out by components
WorldRadius(i) ==
    LET n == HalfSpace_normal(frustum.half_spaces[i])
        h == aabb.value.half_extents
    IN  Sum3([k \in 1..3 |->
            RMul(RAbs(n[k]), Sum3([j \in 1..3 |-> RMul(RAbs(Column(j)[k]), RAbs(h[j]))]))])

\* C7: contains_aabb returns true exactly when dot(normal, center_world) + d > r
\* for all six planes; a box that touches a plane is not contained.
C7_ContainsIff ==
    ret.op = "contains_aabb" =>
        (ret.val = TRUE <=> \A i \in 0..5 : RLt(WorldRadius(i), PlaneEval(i, BoxCenterWorld)))

\* a box of positive size that touches a plane and crosses none
C7_Witness ==
    /\ ret.op = "contains_aabb"
    /\ ret.val = FALSE
    /\ ctor # "default"
    /\ \E i \in 0..5 : PlaneEval(i, BoxCenterWorld) = WorldRadius(i) /\ Positive(WorldRadius(i))
    /\ \A i \in 0..5 : RLe(WorldRadius(i), PlaneEval(i, BoxCenterWorld))

InFrustum(p) == \A i \in 0..5 : Positive(PlaneEval(i, p))

UnitAxes == {V3(1, 0, 0), V3(0, 1, 0), V3(0, 0, 1)}

\* the point of the sphere farthest along direction u, u of length at most 1
SpherePoint(u) == Vec3_add(sphere.center, Vec3_scale(sphere.radius, u))

\* points of the held sphere: the centre and the ends of the diameters along
\* the axes and along the plane normals
SpherePoints ==
    {sphere.center}
    \cup {SpherePoint(u) : u \in UnitAxes}
    \cup {SpherePoint(Vec3_scale(R(-1), u)) : u \in UnitAxes}
    \cup {SpherePoint(HalfSpace_normal(frustum.half_spaces[i])) : i \in 0..5}
    \cup {SpherePoint(Vec3_scale(R(-1), HalfSpace_normal(frustum.half_spaces[i]))) : i \in 0..5}

\* the point of the sphere nearest to plane i lies strictly inside it
SphereInside(i) ==
    Positive(PlaneEval(i, SpherePoint(Vec3_scale(R(-1), HalfSpace_normal(frustum.half_spaces[i])))))

\* the point of the sphere deepest inside plane i lies strictly outside it
SphereOutside(i) ==
    Negative(PlaneEval(i, SpherePoint(HalfSpace_normal(frustum.half_spaces[i]))))

Signs == {<<a, b, c>> : a \in {-1, 1}, b \in {-1, 1}, c \in {-1, 1}}

\* the eight corners of the held box in world space
BoxCorners ==
    {transform_point3a(world_from_local,
        <<RAdd(aabb.value.center[1], RMul(R(s[1]), aabb.value.half_extents[1])),
          RAdd(aabb.value.center[2], RMul(R(s[2]), aabb.value.half_extents[2])),
          RAdd(aabb.value.center[3], RMul(R(s[3]), aabb.value.half_extents[3]))>>) : s \in Signs}

\* C8: with near and far included, a sphere (radius >= 0) or box (half_extents
\* >= 0) lying strictly inside all six half-spaces is reported as intersecting,
\* one lying strictly outside some half-space is reported as not intersecting,
\* and one with a point inside the frustum is never reported as not intersecting.
C8_Conservative ==
    /\ (ret.op = "intersects_sphere" /\ ret.intersect_far /\ sphere.radius[1] >= 0) =>
          /\ (\A i \in 0..5 : SphereInside(i)) => ret.val = TRUE
          /\ (\E i \in 0..5 : SphereOutside(i)) => ret.val = FALSE
          /\ (\E p \in SpherePoints : InFrustum(p)) => ret.val = TRUE
    /\ (ret.op = "intersects_obb" /\ ret.intersect_near /\ ret.intersect_far
            /\ NonNegative(aabb.value.half_extents)) =>
          /\ (\A p \in BoxCorners : InFrustum(p)) => ret.val = TRUE
          /\ (\E i \in 0..5 : \A p \in BoxCorners : Negative(PlaneEval(i, p))) => ret.val = FALSE
          /\ (\E p \in BoxCorners \cup {BoxCenterWorld} : InFrustum(p)) => ret.val = TRUE

\* a rotated or sheared box of positive size with one corner inside the frustum
\* and its centre outside
C8_Witness ==
    /\ ret.op = "intersects_obb" /\ ret.intersect_near /\ ret.intersect_far
    /\ \A k \in 1..3 : Positive(aabb.value.half_extents[k])
    /\ world_from_local.matrix3 # Mat3A_IDENTITY
    /\ \E p \in BoxCorners : InFrustum(p)
    /\ ~InFrustum(BoxCenterWorld)
    /\ ret.val = TRUE

\* further cases of C8 that are reached
C8_SphereInsideCase ==
    /\ ret.op = "intersects_sphere" /\ ret.intersect_far /\ Positive(sphere.radius)
    /\ \A i \in 0..5 : SphereInside(i)

C8_SphereOutsideCase ==
    /\ ret.op = "intersects_sphere" /\ ret.intersect_far /\ Positive(sphere.radius)
    /\ \E i \in 0..5 : SphereOutside(i)

C8_BoxOutsideCase ==
    /\ ret.op = "intersects_obb" /\ ret.intersect_near /\ ret.intersect_far
    /\ \A k \in 1..3 : Positive(aabb.value.half_extents[k])
    /\ \E i \in 0..5 : \A p \in BoxCorners : Negative(PlaneEval(i, p))

C8_BoxInsideCase ==
    /\ ret.op = "intersects_obb" /\ ret.intersect_near /\ ret.intersect_far
    /\ \A k \in 1..3 : Positive(aabb.value.half_extents[k])
    /\ \A p \in BoxCorners : InFrustum(p)

(***************************************************************************)
(* Box of a sphere.                                                        *)
(***************************************************************************)
\* C11: Aabb::from(sphere) has the centre of the sphere and half_extents
\* (radius, radius, radius), so min() = center - radius and max() = center +
\* radius on every axis, a cube of side 2 * radius, for every centre and radius.
C11_FromSphere ==
    built = "from_sphere" =>
        /\ aabb.some
        /\ aabb.value.center = sphere.center
        /\ \A k \in 1..3 :
              /\ aabb.value.half_extents[k] = sphere.radius
              /\ Aabb_min(aabb.value)[k] = RSub(sphere.center[k], sphere.radius)
              /\ Aabb_max(aabb.value)[k] = RAdd(sphere.center[k], sphere.radius)
              /\ RSub(Aabb_max(aabb.value)[k], Aabb_min(aabb.value)[k])
                    = RMul(R(2), sphere.radius)

\* a sphere of positive radius off the origin
C11_Witness ==
    /\ built = "from_sphere"
    /\ Positive(sphere.radius)
    /\ sphere.center # Vec3_ZERO
    /\ aabb.value.half_extents = <<sphere.radius, sphere.radius, sphere.radius>>

(***************************************************************************)
(* Soundness of is_in_half_space.                                          *)
(***************************************************************************)
\* how far corner p of the held box lies from the box centre along the normal of plane i
Projection(i, p) == RSub(PlaneEval(i, p), PlaneEval(i, BoxCenterWorld))

\* C12: when is_in_half_space returns true, each of the eight world-space corners
\* of the box has dot(normal, corner) + d > 0; it returns false when a corner lies
\* on or behind the plane; r = (|M| * |half_extents|) . |normal| is at least the
\* projection of every corner.  This holds for any linear part and any sign of
\* half_extents.
C12_IsInHalfSpaceSound ==
    ret.op = "is_in_half_space" =>
        /\ ret.val = TRUE => \A p \in BoxCorners : Positive(PlaneEval(ret.idx, p))
        /\ (\E p \in BoxCorners : ~Positive(PlaneEval(ret.idx, p))) => ret.val = FALSE
        /\ \A p \in BoxCorners : RLe(Projection(ret.idx, p), WorldRadius(ret.idx))

\* a box with a negative half extent, under a linear part with a negative entry,
\* accepted although r exceeds the projection of every corner
C12_Witness ==
    /\ ret.op = "is_in_half_space"
    /\ ret.val = TRUE
    /\ \E k \in 1..3 : Negative(aabb.value.half_extents[k])
    /\ \E j \in 1..3 : \E k \in 1..3 : Negative(Column(j)[k])
    /\ \A p \in BoxCorners : RLt(Projection(ret.idx, p), WorldRadius(ret.idx))

\* a box of positive size that crosses the plane and is rejected
C12_CrossingCase ==
    /\ ret.op = "is_in_half_space"
    /\ ret.val = FALSE
    /\ ctor # "default"
    /\ \E p \in BoxCorners : Negative(PlaneEval(ret.idx, p))
    /\ \E p \in BoxCorners : Positive(PlaneEval(ret.idx, p))

\* a box that is rejected although all of its corners are strictly inside
C12_OverCautiousCase ==
    /\ ret.op = "is_in_half_space"
    /\ ret.val = FALSE
    /\ \A p \in BoxCorners : Positive(PlaneEval(ret.idx, p))

(***************************************************************************)
(* Sphere against box at coinciding centres.                               *)
(***************************************************************************)
\* from the centre of the held sphere to the centre of the held box
CenterGap == Vec3_sub(BoxCenterWorld, sphere.center)

CenterDistance == Vec3_length(CenterGap)

\* the radius of the held box along the unit vector u, written out by components
RadiusAlong(u) ==
    Sum3([j \in 1..3 |->
            RMul(RAbs(Sum3([k \in 1..3 |-> RMul(u[k], Column(j)[k])])),
                 aabb.value.half_extents[j])])

\* what the test returns when the centres are apart
ApartAnswer ==
    RLt(CenterDistance,
        RAdd(sphere.radius, RadiusAlong(Vec3_scale(RRecip(CenterDistance), CenterGap))))

\* C13 as stated: when the centre of the sphere coincides with the world-space
\* centre of the box, Sphere::intersects_obb returns true; when the centres are
\* apart it returns true exactly when d < radius + relative_radius along v / d.
C13_ZeroDistanceIntersects ==
    ret.op = "sphere_intersects_obb" =>
        IF CenterGap = Vec3_ZERO THEN ret.val = TRUE ELSE ret.val = ApartAnswer

\* the part of C13 for centres that are apart
C13_ApartPart ==
    (ret.op = "sphere_intersects_obb" /\ CenterGap # Vec3_ZERO) => ret.val = ApartAnswer

\* what the code does at coinciding centres: v / d is NaN and the comparison fails
C13_ZeroDistanceFalse ==
    (ret.op = "sphere_intersects_obb" /\ CenterGap = Vec3_ZERO) => ret.val = FALSE

\* coinciding centres, a sphere of positive radius and a box of positive size
C13_ZeroDistanceCase ==
    /\ ret.op = "sphere_intersects_obb"
    /\ CenterGap = Vec3_ZERO
    /\ Positive(sphere.radius)
    /\ \A k \in 1..3 : Positive(aabb.value.half_extents[k])

====
